---- MODULE Spec2Model ----
(***************************************************************************)
(* Model of the approval engine of safe-apt                                *)
(* (src/src/publisher/build_approved_list.py, class ApprovedListBuilder).  *)
(*                                                                         *)
(* Strings (package keys, package names, scan_date texts) are sequences of *)
(* one-character strings, compared by code point as Python compares str.   *)
(* An optional dictionary entry is a sequence of length 0 (key absent) or  *)
(* 1 (key present, holding the value).  Time is counted in seconds.        *)
(***************************************************************************)
EXTENDS Integers, Sequences, FiniteSets, TLC

VARIABLES scans_dir, now, approved_file, call

vars == <<scans_dir, now, approved_file, call>>

(***************************************************************************)
(* Bounds of the model.                                                    *)
(***************************************************************************)
MaxFiles == 2
MaxRequest == 2
MaxTicks == 1
DateWidth == 6

(***************************************************************************)
(* Program constants.                                                      *)
(***************************************************************************)
max_scan_age_hours == 48
SecondsPerHour == 3600

MaxAge == max_scan_age_hours * SecondsPerHour

\* The wall clock when the model starts (late enough for every date used
\* below to be non-negative), and the latest clock value that is explored.
Now0 == MaxAge + MaxAge
MaxNow == Now0 + MaxTicks

(***************************************************************************)
(* Characters and strings.                                                 *)
(***************************************************************************)
Digits == <<"0", "1", "2", "3", "4", "5", "6", "7", "8", "9">>

IsDigit(c) == \E i \in 1..Len(Digits) : Digits[i] = c

DigitVal(c) == (CHOOSE i \in 1..Len(Digits) : Digits[i] = c) - 1

\* Code point of a character (Python compares str by code point).
Ord(c) ==
    IF IsDigit(c) THEN 48 + DigitVal(c)
    ELSE CASE c = "-" -> 45
           [] c = "A" -> 65
           [] c = "_" -> 95
           [] c = "a" -> 97
           [] c = "b" -> 98
           [] c = "x" -> 120

\* s < t for Python str: the first differing character decides, and a proper
\* prefix is smaller.
StrLess(s, t) ==
    \E i \in 1..Len(t) :
        /\ \A j \in 1..(i - 1) : j <= Len(s) /\ s[j] = t[j]
        /\ (i <= Len(s) => Ord(s[i]) < Ord(t[i]))

RECURSIVE Pow10(_)
Pow10(n) == IF n = 0 THEN 1 ELSE 10 * Pow10(n - 1)

\* The fixed-width, sortable timestamp text of time t (datetime.isoformat).
FormatDate(t) ==
    [i \in 1..DateWidth |-> Digits[((t \div Pow10(DateWidth - i)) % 10) + 1]]

\* datetime.fromisoformat: TRUE iff the text is a well-formed timestamp
\* (anything else raises ValueError).
DateParses(s) == Len(s) = DateWidth /\ \A i \in 1..Len(s) : IsDigit(s[i])

RECURSIVE DateValue(_)
DateValue(s) ==
    IF s = <<>> THEN 0
    ELSE 10 * DateValue(SubSeq(s, 1, Len(s) - 1)) + DigitVal(s[Len(s)])

(***************************************************************************)
(* Package keys and scan record files.                                     *)
(***************************************************************************)
Keys == { <<"a", "_", "1">>, <<"a">>, <<"A", "_", "1">> }

StatusValues ==
    { <<>>, <<"approved">>, <<"blocked">>, <<"error">>, <<"unknown">> }

\* The times of the scans: exactly max age before Now0, and one second later.
OldTime == Now0 - MaxAge
NewTime == OldTime + 1
ScanTimes == { OldTime, NewTime }

OldDate == FormatDate(OldTime)
NewDate == FormatDate(NewTime)

\* scan_date entries: absent, unparsable text, and the two timestamps.
ScanDates == { <<>>, << <<"x">> >>, <<OldDate>>, <<NewDate>> }

\* A file of the scans directory.  kind "object" is a JSON object (a scan
\* record); the other kinds are what open / json.load do with the file.
\* Records of package "a" take every status and date; package "A" has the
\* records of an unrelated package.
ObjectFiles ==
    { [kind |-> "object", package_name |-> << <<"a">> >>, status |-> s, scan_date |-> d] :
        s \in StatusValues, d \in ScanDates }
    \cup
    { [kind |-> "object", package_name |-> << <<"A">> >>, status |-> s, scan_date |-> <<NewDate>>] :
        s \in { <<"approved">>, <<"blocked">> } }

\* "bad_json": json.load raises JSONDecodeError.  "unreadable": open raises
\* an OSError.  "undecodable": the bytes are not text, read raises
\* UnicodeDecodeError.  "not_object": the JSON value is a list, a string, a
\* number or null, and result["_file"] = ... raises TypeError.
BadKinds == { "bad_json", "unreadable", "undecodable", "not_object" }

BadFiles ==
    { [kind |-> k, package_name |-> <<>>, status |-> <<>>, scan_date |-> <<>>] :
        k \in BadKinds }

Files == ObjectFiles \cup BadFiles

\* except (json.JSONDecodeError, IOError): the kinds whose exception is caught.
CaughtKinds == { "bad_json", "unreadable" }

(***************************************************************************)
(* Pure functions of ApprovedListBuilder.                                  *)
(***************************************************************************)
HasUnderscore(package_key) ==
    \E i \in 1..Len(package_key) : package_key[i] = "_"

FirstUnderscore(package_key) ==
    CHOOSE i \in 1..Len(package_key) :
        /\ package_key[i] = "_"
        /\ \A j \in 1..(i - 1) : package_key[j] # "_"

\* Variant: package_key.rsplit("_", 1)[0], the cut is at the last underscore.
_extract_package_name_RSplit(package_key) ==
    IF HasUnderscore(package_key)
    THEN LET last == CHOOSE i \in 1..Len(package_key) :
                        /\ package_key[i] = "_"
                        /\ \A j \in (i + 1)..Len(package_key) : package_key[j] # "_"
         IN  SubSeq(package_key, 1, last - 1)
    ELSE package_key

\* package_key.split("_")[0] if "_" in package_key else package_key
_extract_package_name(package_key) ==
    IF HasUnderscore(package_key)
    THEN SubSeq(package_key, 1, FirstUnderscore(package_key) - 1)
    ELSE package_key

\* key=lambda x: x.get("scan_date", "")
SortKey(scan) == IF scan.scan_date = <<>> THEN <<>> ELSE scan.scan_date[1]

\* scan.get("package_name") == package_name
Matches(scan, package_name) == scan.package_name = <<package_name>>

\* The list comprehension of _find_latest_scan, as positions in scan_results.
RECURSIVE MatchingFrom(_, _, _)
MatchingFrom(package_name, scan_results, i) ==
    IF i > Len(scan_results) THEN <<>>
    ELSE IF Matches(scan_results[i], package_name)
         THEN <<i>> \o MatchingFrom(package_name, scan_results, i + 1)
         ELSE MatchingFrom(package_name, scan_results, i + 1)

MatchingScans(package_name, scan_results) ==
    MatchingFrom(package_name, scan_results, 1)

\* list.sort(key=..., reverse=True) is stable: x goes behind every element
\* whose key is >= its own.
RECURSIVE InsertDesc(_, _, _)
InsertDesc(x, sorted, scan_results) ==
    IF sorted = <<>> THEN <<x>>
    ELSE IF StrLess(SortKey(scan_results[Head(sorted)]), SortKey(scan_results[x]))
         THEN <<x>> \o sorted
         ELSE <<Head(sorted)>> \o InsertDesc(x, Tail(sorted), scan_results)

RECURSIVE SortDesc(_, _)
SortDesc(positions, scan_results) ==
    IF positions = <<>> THEN <<>>
    ELSE InsertDesc(positions[Len(positions)],
                    SortDesc(SubSeq(positions, 1, Len(positions) - 1), scan_results),
                    scan_results)

\* Variant: the sort is ascending (reverse=True forgotten).
_find_latest_scan_Oldest(package_name, scan_results) ==
    LET matching_scans == MatchingScans(package_name, scan_results)
    IN  IF matching_scans = <<>> THEN 0
        ELSE SortDesc(matching_scans, scan_results)[Len(matching_scans)]

\* Variant: no sort, the first matching record is returned.
_find_latest_scan_First(package_name, scan_results) ==
    LET matching_scans == MatchingScans(package_name, scan_results)
    IN  IF matching_scans = <<>> THEN 0
        ELSE matching_scans[1]

\* The position in scan_results of the record _find_latest_scan returns
\* (the very dict of the list), 0 for None.
_find_latest_scan(package_name, scan_results) ==
    LET matching_scans == MatchingScans(package_name, scan_results)
    IN  IF matching_scans = <<>> THEN 0
        ELSE SortDesc(matching_scans, scan_results)[1]

\* Variant: an unparsable scan_date is taken as fresh (the except branch
\* returns True).
_is_scan_fresh_FailOpen(scan_result, clock) ==
    IF scan_result.scan_date = <<>> \/ scan_result.scan_date = << <<>> >>
    THEN FALSE
    ELSE LET scan_date_str == scan_result.scan_date[1]
         IN  IF ~DateParses(scan_date_str) THEN TRUE
             ELSE clock - DateValue(scan_date_str) < MaxAge

\* Variant: the window is built with timedelta(minutes=...).
_is_scan_fresh_Minutes(scan_result, clock) ==
    IF scan_result.scan_date = <<>> \/ scan_result.scan_date = << <<>> >>
    THEN FALSE
    ELSE LET scan_date_str == scan_result.scan_date[1]
         IN  IF ~DateParses(scan_date_str) THEN FALSE
             ELSE clock - DateValue(scan_date_str) < max_scan_age_hours * 60

\* Variant: age <= timedelta(...).
_is_scan_fresh_Inclusive(scan_result, clock) ==
    IF scan_result.scan_date = <<>> \/ scan_result.scan_date = << <<>> >>
    THEN FALSE
    ELSE LET scan_date_str == scan_result.scan_date[1]
         IN  IF ~DateParses(scan_date_str) THEN FALSE
             ELSE clock - DateValue(scan_date_str) <= MaxAge

\* clock is what datetime.now() returns in this call.
_is_scan_fresh(scan_result, clock) ==
    IF scan_result.scan_date = <<>> \/ scan_result.scan_date = << <<>> >>
    THEN FALSE
    ELSE LET scan_date_str == scan_result.scan_date[1]
         IN  IF ~DateParses(scan_date_str) THEN FALSE
             ELSE clock - DateValue(scan_date_str) < MaxAge

\* scan_result.get("status", "error")
StatusOf(scan_result) ==
    IF scan_result.status = <<>> THEN "error" ELSE scan_result.status[1]

RECURSIVE SortedSeq(_)
SortedSeq(S) ==
    IF S = {} THEN <<>>
    ELSE LET m == CHOOSE x \in S : \A y \in S : ~StrLess(y, x)
         IN  <<m>> \o SortedSeq(S \ {m})

(***************************************************************************)
(* _load_scan_results.  scans_dir lists the files in the order in which    *)
(* glob enumerates them.                                                   *)
(***************************************************************************)
LoadRaises(dir) ==
    \E i \in 1..Len(dir) : dir[i].kind \notin ({"object"} \cup CaughtKinds)

_load_scan_results(dir) == SelectSeq(dir, LAMBDA f : f.kind = "object")

(***************************************************************************)
(* build_approved_list.                                                    *)
(***************************************************************************)
\* Variant: only status "blocked" blocks (if status != "blocked": approve).
Decide_UnlessBlocked(package_key, scan_results, clock) ==
    LET scan_result == _find_latest_scan(_extract_package_name(package_key), scan_results)
    IN  IF scan_result = 0 THEN "missing"
        ELSE IF ~_is_scan_fresh(scan_results[scan_result], clock) THEN "missing"
        ELSE IF StatusOf(scan_results[scan_result]) # "blocked" THEN "approved"
        ELSE "blocked"

\* The branch taken for one key of the request; clock is the wall clock when
\* its freshness is checked.
Decide(package_key, scan_results, clock) ==
    LET scan_result == _find_latest_scan(_extract_package_name(package_key), scan_results)
    IN  IF scan_result = 0 THEN "missing"
        ELSE IF ~_is_scan_fresh(scan_results[scan_result], clock) THEN "missing"
        ELSE IF StatusOf(scan_results[scan_result]) = "approved" THEN "approved"
        ELSE "blocked"

Decisions(package_list, scan_results, clocks) ==
    [i \in 1..Len(package_list) |-> Decide(package_list[i], scan_results, clocks[i])]

RECURSIVE KeysDecided(_, _, _, _)
KeysDecided(package_list, decisions, d, i) ==
    IF i > Len(package_list) THEN <<>>
    ELSE IF decisions[i] = d
         THEN <<package_list[i]>> \o KeysDecided(package_list, decisions, d, i + 1)
         ELSE KeysDecided(package_list, decisions, d, i + 1)

\* Variant: approved_packages.add(package_name).
ApprovedNames(package_list, decisions) ==
    { _extract_package_name(package_list[i]) :
        i \in { j \in 1..Len(package_list) : decisions[j] = "approved" } }

ApprovedPackages(package_list, decisions) ==
    { package_list[i] : i \in { j \in 1..Len(package_list) : decisions[j] = "approved" } }

RequestLists == UNION { [1..n -> Keys] : n \in 0..MaxRequest }

\* Clock readings of one invocation: one per key, never going back.
ClockReadings(n) ==
    { c \in [1..n -> now..MaxNow] : \A i \in 1..(n - 1) : c[i] <= c[i + 1] }

\* The locals and the outcome of the invocation in progress.  resolved[i] is
\* what _find_latest_scan returned for the i-th key, fresh[i] what
\* _is_scan_fresh returned for it (FALSE when it was not called), lines_before
\* the lines of the output file when the invocation started.
NoCall ==
    [op |-> "none", outcome |-> "none", package_list |-> <<>>, clocks |-> <<>>,
     scan_results |-> <<>>, resolved |-> <<>>, fresh |-> <<>>,
     approved_packages |-> {}, blocked_packages |-> <<>>, missing_scans |-> <<>>,
     lines_before |-> <<>>]

Resolved(package_list, scan_results) ==
    [i \in 1..Len(package_list) |->
        _find_latest_scan(_extract_package_name(package_list[i]), scan_results)]

FreshChecks(package_list, scan_results, clocks) ==
    [i \in 1..Len(package_list) |->
        LET scan_result == Resolved(package_list, scan_results)[i]
        IN  IF scan_result = 0 THEN FALSE
            ELSE _is_scan_fresh(scan_results[scan_result], clocks[i])]

\* _write_approved_list: what the output file holds afterwards.  "ok": every
\* line is written.  "open_error": open("w") raises, the file is untouched.
\* "write_error": open truncated the file and a write raises after cut lines.
WriteOutcomes == { "ok", "open_error", "write_error" }

\* Variant: the file is opened with mode "a".
_write_approved_list_Append(approved_packages, wr, cut) ==
    CASE wr = "ok" ->
            [exists |-> TRUE, lines |-> approved_file.lines \o SortedSeq(approved_packages)]
      [] wr = "open_error" -> approved_file
      [] wr = "write_error" ->
            [exists |-> TRUE,
             lines |-> approved_file.lines \o SubSeq(SortedSeq(approved_packages), 1, cut)]

_write_approved_list(approved_packages, wr, cut) ==
    CASE wr = "ok" -> [exists |-> TRUE, lines |-> SortedSeq(approved_packages)]
      [] wr = "open_error" -> approved_file
      [] wr = "write_error" ->
            [exists |-> TRUE, lines |-> SubSeq(SortedSeq(approved_packages), 1, cut)]

TypeOK ==
    /\ scans_dir \in Seq(Files) /\ Len(scans_dir) <= MaxFiles
    /\ now \in Now0..MaxNow
    /\ approved_file.exists \in BOOLEAN

Init ==
    /\ scans_dir = <<>>
    /\ now = Now0
    /\ approved_file = [exists |-> FALSE, lines |-> <<>>]
    /\ call = NoCall

\* The scanner (another process, running at another time than the engine)
\* writes one more file into the directory; where glob will enumerate it among
\* the others is not specified.
AddScanFile ==
    /\ call.op = "none"
    /\ Len(scans_dir) < MaxFiles
    /\ \E f \in Files, i \in 0..Len(scans_dir) :
         scans_dir' = SubSeq(scans_dir, 1, i) \o <<f>> \o SubSeq(scans_dir, i + 1, Len(scans_dir))
    /\ UNCHANGED <<now, approved_file, call>>

\* The wall clock advances between invocations.
Tick ==
    /\ call.op = "none"
    /\ now < MaxNow
    /\ now' = now + 1
    /\ UNCHANGED <<scans_dir, approved_file, call>>

\* _load_scan_results raises: nothing is decided and nothing is written.
BuildLoadRaises ==
    \E package_list \in RequestLists :
        /\ call.op = "none"
        /\ LoadRaises(scans_dir)
        /\ call' = [NoCall EXCEPT !.op = "build", !.outcome = "load_raised",
                                  !.package_list = package_list,
                                  !.lines_before = approved_file.lines]
        /\ UNCHANGED <<scans_dir, now, approved_file>>

BuildDecides ==
    \E package_list \in RequestLists :
      \E clocks \in ClockReadings(Len(package_list)), wr \in WriteOutcomes :
        LET scan_results == _load_scan_results(scans_dir)
            decisions == Decisions(package_list, scan_results, clocks)
            approved_packages == ApprovedPackages(package_list, decisions)
        IN  /\ call.op = "none"
            /\ ~LoadRaises(scans_dir)
            /\ \E cut \in 0..Cardinality(approved_packages) :
                 /\ (wr = "write_error") => cut < Cardinality(approved_packages)
                 /\ (wr # "write_error") => cut = 0
                 /\ approved_file' = _write_approved_list(approved_packages, wr, cut)
            /\ now' = IF package_list = <<>> THEN now ELSE clocks[Len(package_list)]
            /\ call' =
                 [op |-> "build",
                  outcome |-> CASE wr = "ok" -> "returned"
                                [] wr = "open_error" -> "open_raised"
                                [] wr = "write_error" -> "write_raised",
                  package_list |-> package_list,
                  clocks |-> clocks,
                  scan_results |-> scan_results,
                  resolved |-> Resolved(package_list, scan_results),
                  fresh |-> FreshChecks(package_list, scan_results, clocks),
                  approved_packages |-> approved_packages,
                  blocked_packages |-> KeysDecided(package_list, decisions, "blocked", 1),
                  missing_scans |-> KeysDecided(package_list, decisions, "missing", 1),
                  lines_before |-> approved_file.lines]
            /\ UNCHANGED scans_dir

build_approved_list == BuildLoadRaises \/ BuildDecides

(***************************************************************************)
(* get_approval_stats.                                                     *)
(***************************************************************************)
\* Variant: elif status == "error" counts an error, anything else a block.
StatsKey_ElseBlocked(status) ==
    IF status = "approved" THEN "approved"
    ELSE IF status = "error" THEN "errors"
    ELSE "blocked"

\* The counter that the if / elif / else on status increments.
StatsKey(status) ==
    IF status = "approved" THEN "approved"
    ELSE IF status = "blocked" THEN "blocked"
    ELSE "errors"

NewStats(scan_results) ==
    [total_scans |-> Len(scan_results), approved |-> 0, blocked |-> 0,
     errors |-> 0, fresh_scans |-> 0]

\* The for loop from the i-th record on; clocks[i] is what datetime.now()
\* returns in the freshness check of the i-th record.
RECURSIVE StatsLoop(_, _, _, _)
StatsLoop(stats, scan_results, clocks, i) ==
    IF i > Len(scan_results) THEN stats
    ELSE LET scan == scan_results[i]
             counted == [stats EXCEPT ![StatsKey(StatusOf(scan))] = @ + 1]
             checked == IF _is_scan_fresh(scan, clocks[i])
                        THEN [counted EXCEPT !.fresh_scans = @ + 1]
                        ELSE counted
         IN  StatsLoop(checked, scan_results, clocks, i + 1)

\* _load_scan_results raises: no statistics are returned.
StatsLoadRaises ==
    /\ call.op = "none"
    /\ LoadRaises(scans_dir)
    /\ call' = [op |-> "stats", outcome |-> "load_raised", scan_results |-> <<>>,
                clocks |-> <<>>, stats |-> NewStats(<<>>)]
    /\ UNCHANGED <<scans_dir, now, approved_file>>

StatsReturns ==
    LET scan_results == _load_scan_results(scans_dir)
    IN  \E clocks \in ClockReadings(Len(scan_results)) :
            /\ call.op = "none"
            /\ ~LoadRaises(scans_dir)
            /\ now' = IF scan_results = <<>> THEN now ELSE clocks[Len(scan_results)]
            /\ call' = [op |-> "stats", outcome |-> "returned",
                        scan_results |-> scan_results, clocks |-> clocks,
                        stats |-> StatsLoop(NewStats(scan_results), scan_results, clocks, 1)]
            /\ UNCHANGED <<scans_dir, approved_file>>

get_approval_stats == StatsLoadRaises \/ StatsReturns

\* The invocation is over (it returned or raised to its caller, the batch
\* process exits): its locals are gone, the files stay.
Finish ==
    /\ call.op # "none"
    /\ call' = NoCall
    /\ UNCHANGED <<scans_dir, now, approved_file>>

Next == AddScanFile \/ Tick \/ build_approved_list \/ get_approval_stats \/ Finish

Spec == Init /\ [][Next]_vars

(***************************************************************************)
(* Vocabulary of the properties.                                           *)
(***************************************************************************)
Range(s) == { s[i] : i \in 1..Len(s) }

\* An invocation of build_approved_list that loaded the pool and ran its loop.
Decided == call.op = "build" /\ call.outcome # "load_raised"

\* An invocation of build_approved_list that returned its approved set.
Returned == call.op = "build" /\ call.outcome = "returned"

KeyAt(i) == call.package_list[i]

NameAt(i) == _extract_package_name(call.package_list[i])

\* The record the resolver selected for the i-th key (when resolved[i] # 0).
ResolvedAt(i) == call.scan_results[call.resolved[i]]

\* scan is a well-formed timestamp less than the max age before clock.
WithinWindow(scan, clock) ==
    \E t \in ScanTimes : scan.scan_date = <<FormatDate(t)>> /\ clock - t < MaxAge

\* Positions of the pool whose record has the name of the i-th key.
PoolMatches(i) ==
    { j \in 1..Len(call.scan_results) : call.scan_results[j].package_name = <<NameAt(i)>> }

(***************************************************************************)
(* C1.  As stated: a record of the pool whose status is not approved keeps *)
(* every requested key of its package out of the returned approved set,    *)
(* even when the pool holds other records of that package.                 *)
(***************************************************************************)
C1_AnyNonApprovedRecordExcludes ==
    Returned =>
        \A i \in 1..Len(call.package_list) : \A j \in PoolMatches(i) :
            call.scan_results[j].status # <<"approved">>
                => KeyAt(i) \notin call.approved_packages

\* C1, amended: when the record the resolver selects for a requested key
\* (greatest scan_date text, first enumerated among equals) has a status that
\* is not approved (blocked, error, unknown or absent), the key is not in the
\* approved set, whether that record is fresh or stale.
C1_NonApprovedLatestExcludes ==
    Decided =>
        \A i \in 1..Len(call.package_list) :
            (call.resolved[i] # 0 /\ ResolvedAt(i).status # <<"approved">>)
                => KeyAt(i) \notin call.approved_packages

\* A pool with an approved and a later, fresh, non-approved record of the
\* requested package: the key is blocked.
C1_Witness ==
    /\ Returned
    /\ \E i \in 1..Len(call.package_list) :
         /\ call.resolved[i] # 0
         /\ ResolvedAt(i).status \in { <<>>, <<"error">>, <<"unknown">>, <<"blocked">> }
         /\ WithinWindow(ResolvedAt(i), call.clocks[i])
         /\ \E j \in PoolMatches(i) : call.scan_results[j].status = <<"approved">>
         /\ KeyAt(i) \in Range(call.blocked_packages)

(***************************************************************************)
(* C2.  Fail-closed decision.  The record of key i is unusable when there  *)
(* is none, or when it is not within the window at any clock reading of    *)
(* the invocation (stale, or scan_date missing or unparsable).             *)
(***************************************************************************)
Unusable(i) ==
    \/ call.resolved[i] = 0
    \/ \A k \in 1..Len(call.clocks) : ~WithinWindow(ResolvedAt(i), call.clocks[k])

C3_AnyFreshApprovedRecordAdmits ==
    Returned =>
        \A i \in 1..Len(call.package_list) : \A j \in PoolMatches(i) :
            ( /\ call.scan_results[j].status = <<"approved">>
              /\ \A k \in 1..Len(call.clocks) :
                    WithinWindow(call.scan_results[j], call.clocks[k]) )
                => KeyAt(i) \in call.approved_packages

\* C3, amended: when the record the resolver selects for a requested key
\* (greatest scan_date text, first enumerated among equals) has status
\* approved and is within the window when the key is checked, the key is in
\* the returned approved set.
C3_FreshApprovedLatestAdmits ==
    Returned =>
        \A i \in 1..Len(call.package_list) :
            ( /\ call.resolved[i] # 0
              /\ ResolvedAt(i).status = <<"approved">>
              /\ WithinWindow(ResolvedAt(i), call.clocks[i]) )
                => KeyAt(i) \in call.approved_packages

\* Two records of the requested package, the selected one approved and fresh.
C3_Witness ==
    /\ Returned
    /\ \E i \in 1..Len(call.package_list) :
         /\ Cardinality(PoolMatches(i)) > 1
         /\ call.resolved[i] # 0
         /\ ResolvedAt(i).status = <<"approved">>
         /\ WithinWindow(ResolvedAt(i), call.clocks[i])
         /\ KeyAt(i) \in call.approved_packages

(***************************************************************************)
(* C4.  Every key of the approved set, and every line the invocation wrote *)
(* to the output file, is one of the requested keys, unchanged.            *)
(***************************************************************************)
C4_ApprovedSubsetOfRequested ==
    (call.op = "build") =>
        /\ call.approved_packages \subseteq Range(call.package_list)
        /\ call.outcome \in { "returned", "write_raised" }
              => Range(approved_file.lines) \subseteq Range(call.package_list)

\* The key a_1 is approved and written; its name a, itself a possible key,
\* is not.
C4_Witness ==
    /\ Returned
    /\ call.approved_packages = { <<"a", "_", "1">> }
    /\ approved_file.lines = << <<"a", "_", "1">> >>
    /\ <<"a">> \notin Range(call.package_list)

(***************************************************************************)
(* C5.  _find_latest_scan returns None exactly when no record has the      *)
(* name (compared exactly, case-sensitively); otherwise a record of that   *)
(* name whose scan_date text is lexicographically greatest, and among the  *)
(* records with that greatest text the first of the input collection.      *)
(***************************************************************************)
C5_LatestScan ==
    Decided =>
        \A i \in 1..Len(call.package_list) :
            LET r == call.resolved[i]
            IN  /\ (PoolMatches(i) = {}) <=> (r = 0)
                /\ r # 0 =>
                     /\ r \in PoolMatches(i)
                     /\ \A j \in PoolMatches(i) :
                          /\ ~StrLess(SortKey(call.scan_results[r]), SortKey(call.scan_results[j]))
                          /\ SortKey(call.scan_results[j]) = SortKey(call.scan_results[r])
                                => r <= j

\* Name "A" finds nothing in a pool of "a" records; name "a" finds the first
\* of two records that share the greatest date and differ in status.
C5_Witness ==
    /\ Decided
    /\ Len(call.scan_results) > 1
    /\ \E i \in 1..Len(call.package_list) : NameAt(i) = <<"A">> /\ call.resolved[i] = 0
    /\ \E i \in 1..Len(call.package_list) :
         /\ call.resolved[i] = 1
         /\ \E j \in PoolMatches(i) :
              /\ j > 1
              /\ call.scan_results[j].scan_date = call.scan_results[1].scan_date
              /\ call.scan_results[j].status # call.scan_results[1].status

(***************************************************************************)
(* C6.  _is_scan_fresh returns True iff scan_date parses and               *)
(* now - scan_date < max_scan_age_hours, strictly: a record exactly 48     *)
(* hours old is stale, one that is a second younger is fresh.              *)
(***************************************************************************)
C6_FreshIffYoungerThanMaxAge ==
    Decided =>
        \A i \in 1..Len(call.package_list) :
            call.resolved[i] # 0 =>
                /\ call.fresh[i] <=> WithinWindow(ResolvedAt(i), call.clocks[i])
                /\ ResolvedAt(i).scan_date = <<FormatDate(call.clocks[i] - MaxAge)>>
                      => ~call.fresh[i]
                /\ ResolvedAt(i).scan_date = <<FormatDate(call.clocks[i] - MaxAge + 1)>>
                      => call.fresh[i]

\* One invocation checks a record exactly 48 hours old (stale) and a record
\* one second younger (fresh).
C6_Witness ==
    /\ Decided
    /\ max_scan_age_hours = 48
    /\ \E i \in 1..Len(call.package_list) :
         /\ call.resolved[i] # 0
         /\ ResolvedAt(i).scan_date = <<FormatDate(call.clocks[i] - MaxAge)>>
         /\ ~call.fresh[i]
    /\ \E i \in 1..Len(call.package_list) :
         /\ call.resolved[i] # 0
         /\ ResolvedAt(i).scan_date = <<FormatDate(call.clocks[i] - MaxAge + 1)>>
         /\ call.fresh[i]

(***************************************************************************)
(* C7.  Every successful invocation leaves in the output file exactly the  *)
(* keys of the approved set it returns, one per line, in strictly          *)
(* increasing order, whatever the file held before; and nothing but an     *)
(* invocation changes the file.                                            *)
(***************************************************************************)
HoldsExactly(file, approved_packages) ==
    /\ file.exists
    /\ Range(file.lines) = approved_packages
    /\ \A k \in 1..(Len(file.lines) - 1) : StrLess(file.lines[k], file.lines[k + 1])

C7_FileHoldsLastApprovedSet ==
    [][ /\ (call'.op = "build" /\ call'.outcome = "returned")
            => HoldsExactly(approved_file', call'.approved_packages)
        /\ (approved_file' # approved_file)
            => (call.op = "none" /\ call'.op = "build")
      ]_vars

\* The file held a line of an earlier invocation that is not approved now;
\* it holds the two approved keys, sorted.
C7_Witness ==
    /\ Returned
    /\ \E k \in 1..Len(call.lines_before) : call.lines_before[k] \notin call.approved_packages
    /\ approved_file.lines = << <<"A", "_", "1">>, <<"a">> >>

(***************************************************************************)
(* C8.  Within one invocation every requested key is classified as exactly *)
(* one of approved, blocked, missing.                                      *)
(***************************************************************************)
C8_ExactlyOneClass ==
    Decided =>
        /\ call.approved_packages \cap Range(call.blocked_packages) = {}
        /\ call.approved_packages \cap Range(call.missing_scans) = {}
        /\ Range(call.blocked_packages) \cap Range(call.missing_scans) = {}
        /\ call.approved_packages \cup Range(call.blocked_packages)
              \cup Range(call.missing_scans) = Range(call.package_list)

(***************************************************************************)
(* C9.  A file of the scans directory that is malformed or cannot be read  *)
(* is skipped: the load returns all the other records and the invocation   *)
(* decides every requested key from them.                                  *)
(***************************************************************************)
C9_BadFilesAreSkipped ==
    (call.op = "build") =>
        /\ call.outcome # "load_raised"
        /\ call.scan_results = SelectSeq(scans_dir, LAMBDA f : f.kind = "object")
        /\ call.approved_packages \cup Range(call.blocked_packages)
              \cup Range(call.missing_scans) = Range(call.package_list)

(***************************************************************************)
(* C10.  Output determinism.  The invocation is compared with every other  *)
(* run over the same pool, enumerated in any order, and the same set of    *)
(* requested keys, listed in any order, whose clock readings give every    *)
(* record the freshness it has in this invocation.                         *)
(***************************************************************************)
Perms(n) == { p \in [1..n -> 1..n] : \A i, j \in 1..n : p[i] = p[j] => i = j }

Enumerations(dir) == { [i \in 1..Len(dir) |-> dir[p[i]]] : p \in Perms(Len(dir)) }

SameRequests == { L \in RequestLists : Range(L) = Range(call.package_list) }

SameFreshness(clocks) ==
    \A j \in 1..Len(call.scan_results), k \in 1..Len(call.clocks), m \in 1..Len(clocks) :
        _is_scan_fresh(call.scan_results[j], call.clocks[k])
            = _is_scan_fresh(call.scan_results[j], clocks[m])

OtherRunApproved(dir, package_list, clocks) ==
    ApprovedPackages(package_list,
                     Decisions(package_list, _load_scan_results(dir), clocks))

SameOutput(dir, package_list, clocks) ==
    /\ OtherRunApproved(dir, package_list, clocks) = call.approved_packages
    /\ _write_approved_list(OtherRunApproved(dir, package_list, clocks), "ok", 0)
          = approved_file

\* No two records of the package of a requested key share its greatest
\* scan_date text.
NoTieForLatest ==
    \A i \in 1..Len(call.package_list) :
        \A j \in PoolMatches(i) :
            (j # call.resolved[i])
                => SortKey(call.scan_results[j]) # SortKey(ResolvedAt(i))

\* C10 as stated: whatever the order of the keys and of the records.
C10_DeterministicInAnyOrder ==
    Returned =>
        \A dir \in Enumerations(scans_dir) : \A package_list \in SameRequests :
            \A clocks \in [1..Len(package_list) -> Now0..MaxNow] :
                SameFreshness(clocks) => SameOutput(dir, package_list, clocks)

\* C10, amended: whatever the order of the keys in the request list, and
\* whatever the order in which the records are enumerated provided no two
\* records of a requested package share that package's greatest scan_date
\* text (such a tie is resolved by the enumeration order).
C10_DeterministicUpToTies ==
    (Returned /\ NoTieForLatest) =>
        \A dir \in Enumerations(scans_dir) : \A package_list \in SameRequests :
            \A clocks \in [1..Len(package_list) -> Now0..MaxNow] :
                SameFreshness(clocks) => SameOutput(dir, package_list, clocks)

\* Two records of package "a" with different dates and statuses, two
\* requested keys, one approved: the reordered runs have something to change.
C10_Witness ==
    /\ Returned
    /\ NoTieForLatest
    /\ Len(call.package_list) > 1 /\ call.package_list[1] # call.package_list[2]
    /\ Len(call.scan_results) > 1
    /\ call.scan_results[1].package_name = call.scan_results[2].package_name
    /\ call.scan_results[1].status # call.scan_results[2].status
    /\ call.scan_results[1].scan_date # call.scan_results[2].scan_date
    /\ call.approved_packages # {}

(***************************************************************************)
(* _extract_package_name on its own.  The keys are every text of up to     *)
(* MaxKeyLen characters over KeyChars, and the two keys of the unit tests. *)
(* The function is applied to a key, then to its own result.               *)
(***************************************************************************)
MaxKeyLen == 4
MaxApplications == 2

KeyChars == { "a", "1", "-", "_" }

\* 'curl_7.81.0-1ubuntu1.16_amd64'
CurlKey ==
    <<"c", "u", "r", "l", "_", "7", ".", "8", "1", ".", "0", "-", "1", "u", "b",
      "u", "n", "t", "u", "1", ".", "1", "6", "_", "a", "m", "d", "6", "4">>

\* 'simple-package'
SimpleKey ==
    <<"s", "i", "m", "p", "l", "e", "-", "p", "a", "c", "k", "a", "g", "e">>

PackageKeys ==
    UNION { [1..n -> KeyChars] : n \in 0..MaxKeyLen } \cup { CurlKey, SimpleKey }

\* The argument is fixed; results[n] is what the n-th application returned.
ExtractInit ==
    /\ scans_dir = <<>>
    /\ now = Now0
    /\ approved_file = [exists |-> FALSE, lines |-> <<>>]
    /\ \E package_key \in PackageKeys :
         call = [op |-> "extract", package_key |-> package_key, results |-> <<>>]

\* The argument of the n-th application: the key, then the previous result.
ExtractArg(n) == IF n = 1 THEN call.package_key ELSE call.results[n - 1]

ExtractName ==
    /\ Len(call.results) < MaxApplications
    /\ call' = [call EXCEPT !.results =
                   Append(@, _extract_package_name(ExtractArg(Len(@) + 1)))]
    /\ UNCHANGED <<scans_dir, now, approved_file>>

ExtractNext == ExtractName

ExtractSpec == ExtractInit /\ [][ExtractNext]_vars

(***************************************************************************)
(* C11.  _extract_package_name returns the part of the key before its      *)
(* first underscore, or the whole key when it has none ('curl' for the     *)
(* curl key, 'simple-package' for itself); applied to its own result it    *)
(* returns that result.                                                    *)
(***************************************************************************)
IsPrefixBeforeFirstUnderscore(name, package_key) ==
    /\ \A i \in 1..Len(name) : name[i] # "_"
    /\ \/ name = package_key
       \/ /\ Len(name) < Len(package_key)
          /\ \A i \in 1..Len(name) : name[i] = package_key[i]
          /\ package_key[Len(name) + 1] = "_"

C11_ExtractPrefixIdempotent ==
    \A n \in 1..Len(call.results) :
        /\ IsPrefixBeforeFirstUnderscore(call.results[n], ExtractArg(n))
        /\ n > 1 => call.results[n] = call.results[n - 1]
        /\ call.package_key = CurlKey => call.results[n] = <<"c", "u", "r", "l">>
        /\ call.package_key = SimpleKey => call.results[n] = SimpleKey

\* The curl key, with its two underscores, gave 'curl', and 'curl' gave itself.
C11_Witness ==
    /\ call.package_key = CurlKey
    /\ Len(call.results) = MaxApplications
    /\ call.results[1] = <<"c", "u", "r", "l">>
    /\ call.results[2] = call.results[1]

(***************************************************************************)
(* C12.  get_approval_stats counts every record now in the scans           *)
(* directory, whatever its package and whether or not it is the latest of  *)
(* its package: total_scans is their number; each is counted once, as      *)
(* approved, as blocked, or (status error, unknown or absent) as an error, *)
(* so the three counters add up to total_scans; fresh_scans is the number  *)
(* of records within the window when they are checked, at most total_scans.*)
(***************************************************************************)
StatsReturned == call.op = "stats" /\ call.outcome = "returned"

C12_StatsCountEveryRecord ==
    StatsReturned =>
        LET records == SelectSeq(scans_dir, LAMBDA f : f.kind = "object")
            WithStatus(S) ==
                Cardinality({ j \in 1..Len(records) : records[j].status \in S })
        IN  /\ call.scan_results = records
            /\ call.stats.total_scans = Len(records)
            /\ call.stats.approved = WithStatus({ <<"approved">> })
            /\ call.stats.blocked = WithStatus({ <<"blocked">> })
            /\ call.stats.errors = WithStatus({ <<>>, <<"error">>, <<"unknown">> })
            /\ call.stats.approved + call.stats.blocked + call.stats.errors
                  = call.stats.total_scans
            /\ call.stats.fresh_scans =
                  Cardinality({ j \in 1..Len(records) :
                                  WithinWindow(records[j], call.clocks[j]) })
            /\ call.stats.fresh_scans <= call.stats.total_scans

\* Two records of one package added one after the other, the older approved
\* and stale, the later fresh with an unknown or absent status: both counted.
C12_Witness ==
    /\ StatsReturned
    /\ Len(call.scan_results) = 2
    /\ call.scan_results[1].package_name = call.scan_results[2].package_name
    /\ \E j, k \in 1..2 :
         /\ call.scan_results[j].status = <<"approved">>
         /\ call.scan_results[j].scan_date = <<OldDate>>
         /\ call.scan_results[k].status \in { <<>>, <<"unknown">> }
         /\ call.scan_results[k].scan_date = <<NewDate>>
    /\ call.stats = [total_scans |-> 2, approved |-> 1, blocked |-> 0,
                     errors |-> 1, fresh_scans |-> 1]

====
